---- MODULE Spec2Model ----
(***************************************************************************)
(* Model of src/components/yolo-detector.tsx: the React component App that *)
(* loads an ONNX session, acquires the camera, runs a repeating timer that *)
(* dispatches capture/preprocess/run/decode cycles, and decodes the raw    *)
(* output tensor into detections (processDetections).                      *)
(*                                                                         *)
(* Numbers.  Scores and the confidence threshold are integers in units of  *)
(* 1/100 (the slider writes parseInt(value)/100).  Raw box parameters are  *)
(* integers in pixel units of IMG_SIZE.  A bbox coordinate is an integer   *)
(* in units of 1/(2*IMG_SIZE), so that (c - s/2)/IMG_SIZE is exact:        *)
(* the value 1.0 is BoxOne.                                                *)
(***************************************************************************)
EXTENDS Integers, Sequences, FiniteSets

VARIABLES
    \* useState
    isDetecting, isLoading, detections, fps, modelLoaded,
    confidenceThreshold, error,
    \* useRef
    sessionRef, animationRef, fpsIntervalRef, frameCountRef,
    videoRef, srcObject,
    \* environment: React, timers, promises, media
    mounted, loadPc, cameraPc, liveStream, intervals, rafs, inFlight,
    nextHandle, nextCycle, lastCycle,
    \* decoder harness
    output, result, decPc, prevResult, prevThreshold,
    \* preprocessor harness
    frame, input, prePc

stateVars == <<isDetecting, isLoading, detections, fps, modelLoaded,
               confidenceThreshold, error>>
refVars   == <<sessionRef, animationRef, fpsIntervalRef, frameCountRef,
               videoRef, srcObject>>
envVars   == <<mounted, loadPc, cameraPc, liveStream, intervals, rafs,
               inFlight, nextHandle, nextCycle, lastCycle>>
preVars   == <<frame, input, prePc>>
decVars   == <<output, result, decPc, prevResult, prevThreshold, preVars>>
vars      == <<stateVars, refVars, envVars, decVars>>

(***************************************************************************)
(* Program constants                                                       *)
(***************************************************************************)
COCO_CLASSES ==
    <<"angry", "fear", "disgust", "happy", "sad", "neutral", "surprise">>

IMG_SIZE == 128

\* the period handed to window.setInterval, in milliseconds
TickPeriodMs == 1

\* 1.0 in bbox units (see the header)
BoxOne == 2 * IMG_SIZE

\* the useState initial value 0.5, in 1/100
InitialThreshold == 50

(***************************************************************************)
(* Bounds of the model                                                     *)
(***************************************************************************)
\* cycles the timers may dispatch in one behaviour
MaxCycles == 3
\* timer / animation-frame handles handed out in one behaviour
MaxHandles == 2
\* milliseconds one interval is followed for
MaxElapsed == 3
\* candidates (columns) of a generated output tensor
MaxDetections == 2
\* side of the square the preprocessor is run at in place of IMG_SIZE
PreSide == 2

(***************************************************************************)
(* JavaScript values                                                       *)
(***************************************************************************)
\* undefined / NaN: what a read past the end of an array yields, and what
\* arithmetic on it yields.  Every ordering comparison with it is false.
Undefined == -1000000

IsNum(x) == x # Undefined

\* a < b in JavaScript
Lt(a, b) == IsNum(a) /\ IsNum(b) /\ a < b
\* a > b in JavaScript
Gt(a, b) == IsNum(a) /\ IsNum(b) /\ a > b

Sub(a, b) == IF IsNum(a) /\ IsNum(b) THEN a - b ELSE Undefined

\* arr[k] with a 0-based index k
At(arr, k) ==
    IF IsNum(k) /\ k >= 0 /\ k < Len(arr) THEN arr[k + 1] ELSE Undefined

\* a clamp that forgets the upper end: Math.max(v, 0)
ClampScoreLowerOnly(v) ==
    IF ~IsNum(v) THEN Undefined ELSE IF v < 0 THEN 0 ELSE v

\* Math.min(Math.max(v, 0), 1) on a score in 1/100
ClampScore(v) ==
    IF ~IsNum(v) THEN Undefined
    ELSE IF v < 0 THEN 0 ELSE IF v > 100 THEN 100 ELSE v

\* Math.max(0, Math.min(1, (c + sign * s / 2) / IMG_SIZE)) in bbox units:
\* (c + sign*s/2)/IMG_SIZE = (2c + sign*s) / BoxOne
Corner(c, s, sign) ==
    IF ~IsNum(c) \/ ~IsNum(s) THEN Undefined
    ELSE LET v == 2 * c + sign * s
         IN  IF v < 0 THEN 0 ELSE IF v > BoxOne THEN BoxOne ELSE v

\* COCO_CLASSES[id] || `Class ${id}`
ClassName(id) ==
    IF id >= 0 /\ id < Len(COCO_CLASSES) THEN COCO_CLASSES[id + 1] ELSE "Class"

(***************************************************************************)
(* processDetections                                                       *)
(***************************************************************************)
\* the inner loop without `maxClassId = j`: the index stays what it was
RECURSIVE ScanClassesKeepsIndex(_, _, _, _, _, _, _)
ScanClassesKeepsIndex(data, numDetections, numClasses, i, j, maxScore, maxClassId) ==
    IF ~Lt(j, numClasses) THEN <<maxScore, maxClassId>>
    ELSE LET score == At(data, (4 + j) * numDetections + i)
         IN  ScanClassesKeepsIndex(data, numDetections, numClasses, i, j + 1,
                 IF Gt(score, maxScore) THEN score ELSE maxScore, maxClassId)

\* the inner loop over the class rows of candidate i, from row j on:
\* <<maxScore, maxClassId>> when it ends
RECURSIVE ScanClasses(_, _, _, _, _, _, _)
ScanClasses(data, numDetections, numClasses, i, j, maxScore, maxClassId) ==
    IF ~Lt(j, numClasses) THEN <<maxScore, maxClassId>>
    ELSE LET score == At(data, (4 + j) * numDetections + i)
         IN  IF Gt(score, maxScore)
             THEN ScanClasses(data, numDetections, numClasses, i, j + 1,
                              score, j)
             ELSE ScanClasses(data, numDetections, numClasses, i, j + 1,
                              maxScore, maxClassId)

\* Accepts with the comparison turned round
AcceptsBelow(normalizedScore, threshold, maxClassId) ==
    Lt(normalizedScore, threshold) /\ maxClassId < Len(COCO_CLASSES)

\* Accepts with the threshold made inclusive
AcceptsInclusive(normalizedScore, threshold, maxClassId) ==
    ~Lt(normalizedScore, threshold) /\ maxClassId < Len(COCO_CLASSES)

\* the condition of the if at line 165
Accepts(normalizedScore, threshold, maxClassId) ==
    Gt(normalizedScore, threshold) /\ maxClassId < Len(COCO_CLASSES)

\* the Detection pushed for candidate i
MakeDetection(data, numDetections, i, normalizedScore, maxClassId) ==
    LET xCenter == At(data, i)
        yCenter == At(data, numDetections + i)
        width   == At(data, 2 * numDetections + i)
        height  == At(data, 3 * numDetections + i)
    IN  [classId   |-> maxClassId,
         score     |-> normalizedScore,
         bbox      |-> <<Corner(xCenter, width, -1), Corner(yCenter, height, -1),
                         Corner(xCenter, width, 1), Corner(yCenter, height, 1)>>,
         className |-> ClassName(maxClassId)]

\* the outer loop from candidate i on, dets being the list pushed so far
RECURSIVE DecodeFrom(_, _, _, _, _, _)
DecodeFrom(data, numDetections, numClasses, threshold, i, dets) ==
    IF ~Lt(i, numDetections) THEN dets
    ELSE LET best == ScanClasses(data, numDetections, numClasses, i, 0, 0, 0)
             normalizedScore == ClampScore(best[1])
         IN  DecodeFrom(data, numDetections, numClasses, threshold, i + 1,
                 IF Accepts(normalizedScore, threshold, best[2])
                 THEN Append(dets, MakeDetection(data, numDetections, i,
                                                 normalizedScore, best[2]))
                 ELSE dets)

\* processDetections(output) in a render whose confidenceThreshold is
\* threshold; out is [dims, data]
processDetections(out, threshold) ==
    LET numOutputs    == At(out.dims, 1)
        numDetections == At(out.dims, 2)
        numClasses    == Sub(numOutputs, 4)
    IN  DecodeFrom(out.data, numDetections, numClasses, threshold, 0, <<>>)

(***************************************************************************)
(* Output tensors the model draws from                                     *)
(***************************************************************************)
RECURSIVE Product(_)
Product(dims) == IF dims = <<>> THEN 1 ELSE Head(dims) * Product(Tail(dims))

\* raw (centerX, centerY, width, height): inside the frame, with a negative
\* width, outside the frame, and with a negative height at the frame edge
Boxes == { <<64, 64, 32, 32>>, <<64, 64, -32, 32>>,
           <<200, -50, 40, 40>>, <<10, 120, 40, -60>> }

\* class rows of one candidate: row `first or last` holds s, the others b
Profiles == { [last |-> FALSE, s |-> 70,  b |-> 0],
              [last |-> TRUE,  s |-> 120, b |-> 0],
              [last |-> TRUE,  s |-> 70,  b |-> 70],
              [last |-> FALSE, s |-> -20, b |-> -20],
              [last |-> TRUE,  s |-> 50,  b |-> -20],
              [last |-> FALSE, s |-> 0,   b |-> 0],
              [last |-> FALSE, s |-> 0,   b |-> 70] }

Columns == [box : Boxes, prof : Profiles]

\* the value a column holds in row r of a tensor with `rows` rows
ColVal(col, r, rows) ==
    IF r < 4 THEN col.box[r + 1]
    ELSE IF r = (IF col.prof.last THEN rows - 1 ELSE 4) THEN col.prof.s
    ELSE col.prof.b

\* the tensor of shape dims whose leading rows x columns block is cols;
\* data.length = product(dims)
TensorOf(dims, cols) ==
    LET rows == IF Len(dims) >= 3 THEN dims[2] ELSE 0
        n    == IF Len(dims) >= 3 THEN dims[3] ELSE 0
    IN  [dims |-> dims,
         data |-> [k \in 1..Product(dims) |->
                     IF k <= rows * n
                     THEN ColVal(cols[((k - 1) % n) + 1], (k - 1) \div n, rows)
                     ELSE 70]]

\* numClasses of the generated well-formed tensors: fewer and more classes
\* than COCO_CLASSES has labels
ClassCounts == {1, Len(COCO_CLASSES) + 1}

WellFormedDims ==
    { <<1, 4 + nc, nd>> : nc \in ClassCounts, nd \in 0..MaxDetections }

MalformedDims ==
    { <<1, 3, 2>>, <<1, 4, 1>>, <<2, 5, 1>>, <<3, 12, 2>>, <<1, 5, 2, 1>>,
      <<1, 12, 1, 2>>, <<5, 2>>, <<5>>, <<>>, <<0, 5, 1>> }

IsWellFormed(dims) ==
    Len(dims) = 3 /\ dims[1] = 1 /\ dims[2] >= 5 /\ dims[3] >= 0

TensorsOf(dimsSet) ==
    UNION { { TensorOf(d, cols) :
                cols \in [1..(IF Len(d) >= 3 THEN d[3] ELSE 0) -> Columns] } :
            d \in dimsSet }

\* the all-zero tensor of every well-formed shape
ZeroTensors ==
    { [dims |-> d, data |-> [k \in 1..Product(d) |-> 0]] : d \in WellFormedDims }

Tensors == TensorsOf(WellFormedDims \cup MalformedDims) \cup ZeroTensors

\* values the slider writes, in 1/100
Thresholds == {0, 50, 70}

\* what Session.run resolves with in the component model
RunOutputs ==
    { TensorOf(<<1, 5, 1>>, <<[box |-> <<64, 64, 32, 32>>,
                               prof |-> [last |-> FALSE, s |-> 70, b |-> 0]]>>),
      TensorOf(<<1, 5, 1>>, <<[box |-> <<64, 64, 32, 32>>,
                               prof |-> [last |-> FALSE, s |-> 0, b |-> 0]]>>) }

(***************************************************************************)
(* preprocessImage                                                         *)
(***************************************************************************)
\* v / 255.0, kept as a fraction
Normalized(v) == [num |-> v, den |-> 255]

\* an element of a fresh Float32Array
ZeroFloat == [num |-> 0, den |-> 1]

\* one iteration that reads three values per pixel instead of four
PlanarWritePacked(inp, pixels, size, i) ==
    [inp EXCEPT ![i + 1]                   = Normalized(pixels[i * 3 + 1]),
                ![size * size + i + 1]     = Normalized(pixels[i * 3 + 2]),
                ![2 * size * size + i + 1] = Normalized(pixels[i * 3 + 3])]

\* the body of the loop for pixel i (0-based), on the array inp
PlanarWrite(inp, pixels, size, i) ==
    [inp EXCEPT ![i + 1]                   = Normalized(pixels[i * 4 + 1]),
                ![size * size + i + 1]     = Normalized(pixels[i * 4 + 2]),
                ![2 * size * size + i + 1] = Normalized(pixels[i * 4 + 3])]

\* the loop from pixel i on
RECURSIVE FillPlanes(_, _, _, _)
FillPlanes(inp, pixels, size, i) ==
    IF ~(i < size * size) THEN inp
    ELSE FillPlanes(PlanarWrite(inp, pixels, size, i), pixels, size, i + 1)

\* preprocessImage(video) for a canvas of side size (IMG_SIZE in the
\* program); pixels is what getImageData returns after drawImage scaled
\* the video frame into the canvas
preprocessImage(pixels, size) ==
    FillPlanes([k \in 1..(3 * size * size) |-> ZeroFloat], pixels, size, 0)

\* RGBA pixels of the resampled buffer; no alpha equals a colour value
Pixels == { <<10, 20, 30, 255>>, <<50, 60, 70, 128>>, <<90, 100, 110, 1>> }

\* width and height of the video frames drawn into the canvas
Resolutions == { <<640, 640>>, <<320, 240>>, <<1, 3>> }

\* the RGBA buffer of side size made of the pixels px (row-major)
BufferOf(px, size) ==
    [k \in 1..(4 * size * size) |-> px[((k - 1) \div 4) + 1][((k - 1) % 4) + 1]]

\* a video frame with the buffer the canvas resamples it to
Frames ==
    { [width |-> r[1], height |-> r[2], pixels |-> BufferOf(px, PreSide)] :
        r \in Resolutions, px \in [1..(PreSide * PreSide) -> Pixels] }

NoFrame == [width |-> 0, height |-> 0, pixels |-> <<>>]

(***************************************************************************)
(* The component: state after the first render, before the mount effect    *)
(***************************************************************************)
NoCycle == [id |-> 0, outcome |-> "none", thr |-> 0]

Init ==
    /\ isDetecting = FALSE
    /\ isLoading = FALSE
    /\ detections = <<>>
    /\ fps = 0
    /\ modelLoaded = FALSE
    /\ confidenceThreshold = InitialThreshold
    /\ error = ""
    /\ sessionRef = "null"
    /\ animationRef = 0
    /\ fpsIntervalRef = 0
    /\ frameCountRef = 0
    /\ videoRef = "video"
    /\ srcObject = "null"
    /\ mounted = TRUE
    /\ loadPc = "idle"
    /\ cameraPc = "idle"
    /\ liveStream = FALSE
    /\ intervals = {}
    /\ rafs = {}
    /\ inFlight = {}
    /\ nextHandle = 1
    /\ nextCycle = 1
    /\ lastCycle = NoCycle
    /\ output = [dims |-> <<>>, data |-> <<>>]
    /\ result = <<>>
    /\ decPc = "off"
    /\ prevResult = <<>>
    /\ prevThreshold = InitialThreshold
    /\ frame = NoFrame
    /\ input = <<>>
    /\ prePc = "off"

\* a state setter called with value new: React drops the update of a
\* component that is no longer mounted
SetState(live, cur, new) == IF live THEN new ELSE cur

\* the mount effect: loadModel() and startCamera() up to their first await
Mount ==
    /\ mounted /\ loadPc = "idle"
    /\ isLoading' = TRUE
    /\ error' = ""
    /\ loadPc' = "pending"
    /\ cameraPc' = "pending"
    /\ UNCHANGED <<isDetecting, detections, fps, modelLoaded,
                   confidenceThreshold, refVars, mounted, liveStream,
                   intervals, rafs, inFlight, nextHandle, nextCycle,
                   lastCycle, decVars>>

\* loadModel after InferenceSession.create resolved
LoadResolve ==
    /\ loadPc = "pending"
    /\ sessionRef' = "session"
    /\ modelLoaded' = SetState(mounted, modelLoaded, TRUE)
    /\ isLoading' = SetState(mounted, isLoading, FALSE)
    /\ loadPc' = "done"
    /\ UNCHANGED <<isDetecting, detections, fps, confidenceThreshold, error,
                   animationRef, fpsIntervalRef, frameCountRef, videoRef,
                   srcObject, mounted, cameraPc, liveStream, intervals, rafs,
                   inFlight, nextHandle, nextCycle, lastCycle, decVars>>

\* a catch that also marks the model as loaded
LoadRejectMarksLoaded ==
    /\ loadPc = "pending"
    /\ error' = SetState(mounted, error,
          "Failed to load model. Please ensure best.onnx is in the public folder.")
    /\ isLoading' = SetState(mounted, isLoading, FALSE)
    /\ modelLoaded' = SetState(mounted, modelLoaded, TRUE)
    /\ loadPc' = "failed"
    /\ UNCHANGED <<isDetecting, detections, fps, confidenceThreshold,
                   refVars, mounted, cameraPc, liveStream, intervals, rafs,
                   inFlight, nextHandle, nextCycle, lastCycle, decVars>>

\* loadModel's catch
LoadReject ==
    /\ loadPc = "pending"
    /\ error' = SetState(mounted, error,
          "Failed to load model. Please ensure best.onnx is in the public folder.")
    /\ isLoading' = SetState(mounted, isLoading, FALSE)
    /\ loadPc' = "failed"
    /\ UNCHANGED <<isDetecting, detections, fps, modelLoaded,
                   confidenceThreshold, refVars, mounted, cameraPc,
                   liveStream, intervals, rafs, inFlight, nextHandle,
                   nextCycle, lastCycle, decVars>>

\* startCamera after getUserMedia resolved with a live stream
CameraResolve ==
    /\ cameraPc = "pending"
    /\ liveStream' = TRUE
    /\ srcObject' = IF videoRef # "null" THEN "stream" ELSE srcObject
    /\ cameraPc' = "granted"
    /\ UNCHANGED <<stateVars, sessionRef, animationRef, fpsIntervalRef,
                   frameCountRef, videoRef, mounted, loadPc, intervals, rafs,
                   inFlight, nextHandle, nextCycle, lastCycle, decVars>>

\* startCamera's catch
CameraReject ==
    /\ cameraPc = "pending"
    /\ error' = SetState(mounted, error, "Failed to access camera")
    /\ cameraPc' = "denied"
    /\ UNCHANGED <<isDetecting, isLoading, detections, fps, modelLoaded,
                   confidenceThreshold, refVars, mounted, loadPc, liveStream,
                   intervals, rafs, inFlight, nextHandle, nextCycle,
                   lastCycle, decVars>>

\* the slider's onChange; the slider is disabled while isDetecting
SetConfidenceThreshold ==
    /\ mounted /\ ~isDetecting
    /\ \E v \in Thresholds \ {confidenceThreshold} :
          confidenceThreshold' = v
    /\ UNCHANGED <<isDetecting, isLoading, detections, fps, modelLoaded,
                   error, refVars, envVars, decVars>>

\* startDetection whose callbacks see isDetecting as set
StartDetectionLiveFlag ==
    IF ~modelLoaded
    THEN /\ error' = "Model not loaded yet"
         /\ UNCHANGED <<isDetecting, frameCountRef, fpsIntervalRef, intervals,
                        nextHandle>>
    ELSE /\ isDetecting' = TRUE
         /\ error' = ""
         /\ frameCountRef' = 0
         /\ fpsIntervalRef' = nextHandle
         /\ intervals' = intervals \cup
                {[kind |-> "interval", id |-> nextHandle,
                  thr |-> confidenceThreshold, isDet |-> TRUE,
                  elapsed |-> 0]}
         /\ nextHandle' = nextHandle + 1

\* startDetection, called from the render that is current: its closures
\* (the interval callback, detectFrame, processDetections) keep that
\* render's isDetecting and confidenceThreshold
StartDetection ==
    IF ~modelLoaded
    THEN /\ error' = "Model not loaded yet"
         /\ UNCHANGED <<isDetecting, frameCountRef, fpsIntervalRef, intervals,
                        nextHandle>>
    ELSE /\ isDetecting' = TRUE
         /\ error' = ""
         /\ frameCountRef' = 0
         /\ fpsIntervalRef' = nextHandle
         /\ intervals' = intervals \cup
                {[kind |-> "interval", id |-> nextHandle,
                  thr |-> confidenceThreshold, isDet |-> isDetecting,
                  elapsed |-> 0]}
         /\ nextHandle' = nextHandle + 1

\* stopDetection without the clearInterval
StopDetectionKeepsTimer(live) ==
    /\ isDetecting' = SetState(live, isDetecting, FALSE)
    /\ rafs' = IF animationRef # 0
               THEN {r \in rafs : r.id # animationRef} ELSE rafs
    /\ intervals' = intervals
    /\ detections' = SetState(live, detections, <<>>)
    /\ fps' = SetState(live, fps, 0)

\* stopDetection; live: whether the component is still mounted
StopDetection(live) ==
    /\ isDetecting' = SetState(live, isDetecting, FALSE)
    /\ rafs' = IF animationRef # 0
               THEN {r \in rafs : r.id # animationRef} ELSE rafs
    /\ intervals' = IF fpsIntervalRef # 0
                    THEN {t \in intervals : t.id # fpsIntervalRef}
                    ELSE intervals
    /\ detections' = SetState(live, detections, <<>>)
    /\ fps' = SetState(live, fps, 0)

\* a toggle whose start loads the model again
ToggleDetectionReloads ==
    /\ mounted /\ ~isLoading /\ modelLoaded
    /\ IF isDetecting
       THEN /\ StopDetection(TRUE)
            /\ UNCHANGED <<error, frameCountRef, fpsIntervalRef, nextHandle,
                           loadPc>>
       ELSE /\ nextHandle <= MaxHandles
            /\ StartDetection
            /\ loadPc' = "pending"
            /\ UNCHANGED <<detections, fps, rafs>>
    /\ UNCHANGED <<isLoading, modelLoaded, confidenceThreshold, sessionRef,
                   animationRef, videoRef, srcObject, mounted,
                   cameraPc, liveStream, inFlight, nextCycle, lastCycle,
                   decVars>>

\* a click on the action button (disabled while isLoading or !modelLoaded)
ToggleDetection ==
    /\ mounted /\ ~isLoading /\ modelLoaded
    /\ IF isDetecting
       THEN /\ StopDetection(TRUE)
            /\ UNCHANGED <<error, frameCountRef, fpsIntervalRef, nextHandle>>
       ELSE /\ nextHandle <= MaxHandles
            /\ StartDetection
            /\ UNCHANGED <<detections, fps, rafs>>
    /\ UNCHANGED <<isLoading, modelLoaded, confidenceThreshold, sessionRef,
                   animationRef, videoRef, srcObject, mounted, loadPc,
                   cameraPc, liveStream, inFlight, nextCycle, lastCycle,
                   decVars>>

\* detectFrame up to the await of session.run, called from callback cb
DetectFrame(cb) ==
    IF sessionRef = "null" \/ videoRef = "null"
    THEN UNCHANGED <<inFlight, nextCycle>>
    ELSE /\ inFlight' = inFlight \cup
                {[id |-> nextCycle, thr |-> cb.thr, isDet |-> cb.isDet,
                  session |-> sessionRef]}
         /\ nextCycle' = nextCycle + 1

\* the body of the interval callback before it calls detectFrame
PublishFps ==
    /\ fps' = SetState(mounted, fps, frameCountRef)
    /\ frameCountRef' = 0

\* a timer callback runs: a tick of the interval, or an animation frame
TimerFires(cb) ==
    /\ cb \in intervals \cup rafs
    /\ nextCycle <= MaxCycles
    /\ IF cb.kind = "interval"
       THEN /\ cb.elapsed < MaxElapsed
            /\ PublishFps
            /\ intervals' = (intervals \ {cb}) \cup
                   {[cb EXCEPT !.elapsed = @ + TickPeriodMs]}
            /\ UNCHANGED rafs
       ELSE /\ rafs' = rafs \ {cb}
            /\ UNCHANGED <<fps, frameCountRef, intervals>>
    /\ DetectFrame(cb)
    /\ UNCHANGED <<isDetecting, isLoading, detections, modelLoaded,
                   confidenceThreshold, error, sessionRef, animationRef,
                   fpsIntervalRef, videoRef, srcObject, mounted, loadPc,
                   cameraPc, liveStream, nextHandle, lastCycle, decVars>>

\* the end of detectFrame: if (isDetecting) requestAnimationFrame(detectFrame)
Reschedule(c) ==
    IF c.isDet
    THEN /\ nextHandle <= MaxHandles
         /\ animationRef' = nextHandle
         /\ rafs' = rafs \cup {[kind |-> "frame", id |-> nextHandle,
                                thr |-> c.thr, isDet |-> c.isDet,
                                elapsed |-> 0]}
         /\ nextHandle' = nextHandle + 1
    ELSE UNCHANGED <<animationRef, rafs, nextHandle>>

\* detectFrame after session.run resolved with out, for the cycle c
Publish(c, out) ==
    /\ detections' = SetState(mounted, detections,
                              processDetections(out, c.thr))
    /\ frameCountRef' = frameCountRef + 1
    /\ lastCycle' = [id |-> c.id, outcome |-> "decoded", thr |-> c.thr]
    /\ UNCHANGED <<isDetecting, fps, error, intervals>>

RunResolve(c, out) ==
    /\ c \in inFlight
    /\ inFlight' = inFlight \ {c}
    /\ Publish(c, out)
    /\ Reschedule(c)
    /\ UNCHANGED <<isLoading, modelLoaded, confidenceThreshold, sessionRef,
                   fpsIntervalRef, videoRef, srcObject, mounted, loadPc,
                   cameraPc, liveStream, nextCycle, decVars>>

\* a catch that surfaces the error and counts the failed cycle as a frame
CatchDetectionErrorSurfaced(c) ==
    /\ lastCycle' = [id |-> c.id, outcome |-> "error", thr |-> c.thr]
    /\ error' = SetState(mounted, error, "Detection error")
    /\ frameCountRef' = frameCountRef + 1
    /\ UNCHANGED <<detections, isDetecting, fps, intervals>>

\* detectFrame's catch, for the cycle c whose session.run rejected
CatchDetectionError(c) ==
    /\ lastCycle' = [id |-> c.id, outcome |-> "error", thr |-> c.thr]
    /\ UNCHANGED <<detections, frameCountRef, isDetecting, fps, error,
                   intervals>>

RunReject(c) ==
    /\ c \in inFlight
    /\ inFlight' = inFlight \ {c}
    /\ CatchDetectionError(c)
    /\ Reschedule(c)
    /\ UNCHANGED <<isLoading, modelLoaded, confidenceThreshold, sessionRef,
                   fpsIntervalRef, videoRef, srcObject, mounted, loadPc,
                   cameraPc, liveStream, nextCycle, decVars>>

\* the cleanup of the mount effect.  refAttached: whether videoRef.current
\* still holds the element when the cleanup runs (React detaches refs when
\* it commits the removal; whether that precedes the effect cleanup depends
\* on the React version)
Unmount ==
    /\ mounted /\ loadPc # "idle"
    /\ \E refAttached \in BOOLEAN :
          liveStream' = IF refAttached /\ srcObject # "null"
                        THEN FALSE ELSE liveStream
    /\ StopDetection(FALSE)
    /\ videoRef' = "null"
    /\ mounted' = FALSE
    /\ UNCHANGED <<isLoading, modelLoaded, confidenceThreshold, error,
                   sessionRef, animationRef, fpsIntervalRef, frameCountRef,
                   srcObject, loadPc, cameraPc, inFlight, nextHandle,
                   nextCycle, lastCycle, decVars>>

Next ==
    \/ Mount
    \/ LoadResolve
    \/ LoadReject
    \/ CameraResolve
    \/ CameraReject
    \/ SetConfidenceThreshold
    \/ ToggleDetection
    \/ \E cb \in intervals \cup rafs : TimerFires(cb)
    \/ \E c \in inFlight : \E out \in RunOutputs : RunResolve(c, out)
    \/ \E c \in inFlight : RunReject(c)
    \/ Unmount

Spec == Init /\ [][Next]_vars

(***************************************************************************)
(* The decoder alone: processDetections applied to one output tensor       *)
(***************************************************************************)
InitDecode ==
    /\ isDetecting = FALSE
    /\ isLoading = FALSE
    /\ detections = <<>>
    /\ fps = 0
    /\ modelLoaded = FALSE
    /\ confidenceThreshold \in Thresholds
    /\ error = ""
    /\ sessionRef = "null"
    /\ animationRef = 0
    /\ fpsIntervalRef = 0
    /\ frameCountRef = 0
    /\ videoRef = "video"
    /\ srcObject = "null"
    /\ mounted = TRUE
    /\ loadPc = "idle"
    /\ cameraPc = "idle"
    /\ liveStream = FALSE
    /\ intervals = {}
    /\ rafs = {}
    /\ inFlight = {}
    /\ nextHandle = 1
    /\ nextCycle = 1
    /\ lastCycle = NoCycle
    /\ output \in Tensors
    /\ result = <<>>
    /\ decPc = "ready"
    /\ prevResult = <<>>
    /\ prevThreshold = confidenceThreshold
    /\ frame = NoFrame
    /\ input = <<>>
    /\ prePc = "off"

Decode ==
    /\ decPc = "ready"
    /\ result' = processDetections(output, confidenceThreshold)
    /\ decPc' = "done"
    /\ UNCHANGED <<stateVars, refVars, envVars, output, prevResult,
                   prevThreshold, preVars>>

\* the slider writes another threshold and the same output is decoded again
\* in the next render
DecodeAgain ==
    /\ decPc = "done"
    /\ \E t \in Thresholds \ {confidenceThreshold} :
          /\ confidenceThreshold' = t
          /\ result' = processDetections(output, t)
    /\ prevResult' = result
    /\ prevThreshold' = confidenceThreshold
    /\ decPc' = "again"
    /\ UNCHANGED <<isDetecting, isLoading, detections, fps, modelLoaded,
                   error, refVars, envVars, output, preVars>>

NextDecode == Decode \/ DecodeAgain

SpecDecode == InitDecode /\ [][NextDecode]_vars

(***************************************************************************)
(* Properties                                                              *)
(***************************************************************************)

\* C1: in every reachable state at most one Session.run invocation is in
\* flight: a tick dispatches a cycle only if no earlier cycle is still
\* awaiting its result.
SingleInFlight == Cardinality(inFlight) <= 1

\* C2: once stopDetection has cleared the published detection list, the
\* list stays empty until detection is started again: no step taken while
\* detection is stopped publishes a result.
StoppedListStaysEmpty ==
    [][(mounted /\ ~isDetecting /\ detections = <<>> /\ ~isDetecting')
          => detections' = <<>>]_vars

\* C3: every Detection the decoder returns has a bbox with
\* 0 <= x1 <= x2 <= 1 and 0 <= y1 <= y2 <= 1, whatever the tensor.
BboxOrderedInFrame ==
    decPc = "done" =>
        \A k \in 1..Len(result) :
            LET b == result[k].bbox
            IN  /\ 0 <= b[1] /\ b[1] <= b[3] /\ b[3] <= BoxOne
                /\ 0 <= b[2] /\ b[2] <= b[4] /\ b[4] <= BoxOne

\* C4: the decoder returns an empty list for every tensor whose shape is
\* not [1, numOutputs, numDetections] with numOutputs >= 5.
MalformedYieldsEmpty ==
    (decPc = "done" /\ ~IsWellFormed(output.dims)) => result = <<>>

\* C5: once the model load or the camera acquisition has failed, the error
\* stays surfaced and Detecting is not entered, whatever start/stop follow.
ErrorIsTerminal ==
    (mounted /\ (loadPc = "failed" \/ cameraPc = "denied"))
        => (error # "" /\ ~isDetecting)

\* C6: every decode compares the scores against the most recently written
\* confidence threshold.
DecodeUsesLatestThreshold ==
    [][(lastCycle' # lastCycle /\ lastCycle'.outcome = "decoded")
          => lastCycle'.thr = confidenceThreshold]_vars

\* C7: after the component's cleanup has run no repeating timer is active
\* and no camera media track is live.
ReleasedAfterUnmount ==
    ~mounted => (intervals = {} /\ rafs = {} /\ ~liveStream)

\* C8: the frame counter is published as fps and reset only at one-second
\* window boundaries, 1000 timer-milliseconds apart: a tick that is not at
\* a boundary leaves fps and the frame counter alone.
FpsOnlyAtWindowBoundary ==
    [][\A t \in intervals : \A u \in intervals' :
          (u.id = t.id /\ u.elapsed # t.elapsed /\ u.elapsed % 1000 # 0)
              => (fps' = fps /\ frameCountRef' = frameCountRef)]_vars

\* a step in which the interval t ticks
Ticked(t) == \E u \in intervals' : u.id = t.id /\ u.elapsed # t.elapsed

\* C9: a failing Session.run is non-fatal.  The step that handles the
\* failure of a cycle leaves the published detection list, the frame
\* counter, fps, the surfaced error, isDetecting and the active timers
\* unchanged; and a tick that follows a failure dispatches a new cycle.
FailedRunIsNonFatal ==
    [][/\ \A c \in inFlight :
            lastCycle' = [id |-> c.id, outcome |-> "error", thr |-> c.thr]
              => /\ detections' = detections
                 /\ frameCountRef' = frameCountRef
                 /\ fps' = fps
                 /\ error' = error
                 /\ isDetecting' = isDetecting
                 /\ intervals' = intervals
                 /\ inFlight' = inFlight \ {c}
       /\ \A t \in intervals :
            (lastCycle.outcome = "error" /\ Ticked(t))
              => \E n \in inFlight' \ inFlight :
                    n.id = nextCycle /\ n.id > lastCycle.id
      ]_vars

\* C9 witness: a cycle has failed, the timer is still active with
\* isDetecting set and no error surfaced, and a cycle dispatched by a later
\* tick is in flight
FailedRunThenNextCycle ==
    /\ lastCycle.outcome = "error"
    /\ isDetecting /\ error = "" /\ intervals # {}
    /\ \A t \in intervals : t.elapsed = 2
    /\ lastCycle.id = 1
    /\ \E n \in inFlight : n.id = 2

\* the class rows of candidate i of a well-formed tensor
ClassScores(out, i) ==
    [j \in 0..(out.dims[2] - 5) |-> out.data[(4 + j) * out.dims[3] + i + 1]]

\* the maximum raw score of candidate i
WinningScore(out, i) ==
    LET sc == ClassScores(out, i)
    IN  CHOOSE m \in {sc[j] : j \in DOMAIN sc} :
            \A j \in DOMAIN sc : sc[j] <= m

\* the first class row holding the maximum raw score of candidate i
WinningClass(out, i) ==
    LET sc == ClassScores(out, i)
    IN  CHOOSE j \in DOMAIN sc :
            /\ sc[j] = WinningScore(out, i)
            /\ \A h \in DOMAIN sc : sc[h] = sc[j] => j <= h

\* a score clamped into [0, 1], in 1/100
Clamped(v) == IF v < 0 THEN 0 ELSE IF v > 100 THEN 100 ELSE v

\* the candidates the decode contract accepts
Accepted(out, threshold) ==
    { i \in 0..(out.dims[3] - 1) :
        /\ Clamped(WinningScore(out, i)) > threshold
        /\ WinningClass(out, i) < Len(COCO_CLASSES) }

\* the k-th accepted candidate in increasing index order
NthAccepted(out, threshold, k) ==
    CHOOSE i \in Accepted(out, threshold) :
        Cardinality({a \in Accepted(out, threshold) : a < i}) = k - 1

\* C10: for a well-formed tensor the result is exactly the candidates whose
\* clamped winning score is strictly greater than the threshold and whose
\* winning class index is inside the label table, in increasing candidate
\* order, one Detection per such candidate, each built from its own column.
DecodeIsExactlyAccepted ==
    (decPc = "done" /\ IsWellFormed(output.dims)) =>
        /\ Len(result) = Cardinality(Accepted(output, confidenceThreshold))
        /\ \A k \in 1..Len(result) :
              LET i  == NthAccepted(output, confidenceThreshold, k)
                  nd == output.dims[3]
              IN  /\ result[k].classId = WinningClass(output, i)
                  /\ result[k].score = Clamped(WinningScore(output, i))
                  /\ result[k].bbox =
                       <<Corner(output.data[i + 1], output.data[2 * nd + i + 1], -1),
                         Corner(output.data[nd + i + 1], output.data[3 * nd + i + 1], -1),
                         Corner(output.data[i + 1], output.data[2 * nd + i + 1], 1),
                         Corner(output.data[nd + i + 1], output.data[3 * nd + i + 1], 1)>>

\* C10 witness: a decoded well-formed tensor of two candidates, both with
\* a clamped winning score above the threshold; the winning class of the
\* first is outside the label table, so only the second is returned
DecodeDropsUnlabelledOnly ==
    /\ decPc = "done" /\ IsWellFormed(output.dims)
    /\ output.dims[3] = 2
    /\ \A i \in {0, 1} :
          Clamped(WinningScore(output, i)) > confidenceThreshold
    /\ WinningClass(output, 0) >= Len(COCO_CLASSES)
    /\ WinningClass(output, 1) < Len(COCO_CLASSES)
    /\ Len(result) = 1

\* processDetections has run on output with the current threshold
Decoded == decPc \in {"done", "again"}

\* C11: for every output tensor and every threshold in [0,1], each returned
\* Detection has score > confidenceThreshold, score <= 1 and classId in
\* [0, numClasses) with numClasses = numOutputs - 4; and an all-zero tensor
\* of valid shape yields no detection.
DetectionsWithinContract ==
    Decoded =>
        /\ \A k \in 1..Len(result) :
              /\ result[k].score > confidenceThreshold
              /\ result[k].score <= 100
              /\ result[k].classId >= 0
              /\ result[k].classId < output.dims[2] - 4
        /\ (IsWellFormed(output.dims)
               /\ \A k \in 1..Len(output.data) : output.data[k] = 0)
             => result = <<>>

\* C11 witness: a decoded tensor holding a raw score above 1 whose
\* Detection is returned with the score clamped to 1
ClampedDetectionReturned ==
    /\ Decoded
    /\ \E k \in 1..Len(output.data) : output.data[k] > 100
    /\ \E k \in 1..Len(result) : result[k].score = 100

\* the raw value of class row j of candidate i
RawScore(out, i, j) == out.data[(4 + j) * out.dims[3] + i + 1]

\* C12: decode is single-label winner-take-all.  The returned Detections
\* belong to distinct candidates, in increasing order; the classId of each
\* is a class row holding the maximum raw score of its candidate, and its
\* score is that maximum clamped into [0,1].
WinnerTakeAll ==
    (Decoded /\ IsWellFormed(output.dims)) =>
        \E f \in [1..Len(result) -> 0..(output.dims[3] - 1)] :
            /\ \A k \in 1..Len(result) : \A h \in 1..Len(result) :
                  k < h => f[k] < f[h]
            /\ \A k \in 1..Len(result) :
                  /\ result[k].classId \in 0..(output.dims[2] - 5)
                  /\ \A j \in 0..(output.dims[2] - 5) :
                        RawScore(output, f[k], j)
                            <= RawScore(output, f[k], result[k].classId)
                  /\ result[k].score =
                        Clamped(RawScore(output, f[k], result[k].classId))

\* C12 witness: a decoded candidate with several positive class scores
\* whose winner is neither the first nor the last class row
MiddleRowWins ==
    /\ Decoded /\ IsWellFormed(output.dims)
    /\ output.dims[3] = 1
    /\ \E k \in 1..Len(result) :
          /\ result[k].classId = 1
          /\ RawScore(output, 0, 1) = 70
          /\ RawScore(output, 0, 2) = 70
          /\ RawScore(output, 0, 0) = 0

\* a is b with some elements left out, order kept
RECURSIVE IsSubList(_, _)
IsSubList(a, b) ==
    IF a = <<>> THEN TRUE
    ELSE IF b = <<>> THEN FALSE
    ELSE IF Head(a) = Head(b) THEN IsSubList(Tail(a), Tail(b))
    ELSE IsSubList(a, Tail(b))

\* C13: threshold monotonicity.  For a fixed output tensor and thresholds
\* t1 <= t2 the list decoded with t2 is a sub-list of the list decoded with
\* t1, so raising the threshold never increases the number of detections.
ThresholdMonotone ==
    decPc = "again" =>
        /\ prevThreshold <= confidenceThreshold
             => /\ IsSubList(result, prevResult)
                /\ Len(result) <= Len(prevResult)
        /\ confidenceThreshold <= prevThreshold
             => /\ IsSubList(prevResult, result)
                /\ Len(prevResult) <= Len(result)

\* C13 witness: the threshold was raised on the same output and the second
\* decode returned fewer detections, but not none
RaisedThresholdDropsSome ==
    /\ decPc = "again"
    /\ prevThreshold < confidenceThreshold
    /\ Len(result) >= 1
    /\ Len(result) < Len(prevResult)

\* detection is stopped: isDetecting is false, or the component is gone
Stopped == ~isDetecting \/ ~mounted

\* C14: stopping suppresses all future scheduling.  The stop itself leaves
\* the cycles in flight alone, and while detection stays stopped no step
\* dispatches a cycle: neither a tick nor an animation frame.
StopSuppressesScheduling ==
    [][/\ (~Stopped /\ Stopped') => inFlight' = inFlight
       /\ (Stopped /\ Stopped')
            => (nextCycle' = nextCycle /\ inFlight' \subseteq inFlight)
       /\ Stopped' => (intervals' = {} /\ rafs' = {})
      ]_vars

\* C14 witness: detection was started and stopped, and a cycle that was in
\* flight at the stop has completed since (the stop had cleared the list)
CycleCompletedAfterStop ==
    /\ mounted /\ ~isDetecting /\ fpsIntervalRef # 0
    /\ lastCycle.outcome = "decoded"
    /\ detections # <<>>

\* C15: detection is disabled unless the model loaded successfully:
\* isDetecting implies a successful load with the session set, no cycle is
\* dispatched before that, and after a failed load isDetecting stays false
\* and no timer is active.
DetectionNeedsLoadedModel ==
    /\ isDetecting => (loadPc = "done" /\ sessionRef = "session")
    /\ (inFlight # {} \/ nextCycle > 1)
          => (loadPc = "done" /\ sessionRef = "session")
    /\ loadPc = "failed"
          => (~isDetecting /\ intervals = {} /\ rafs = {} /\ sessionRef = "null")

\* C15 witness: the load has failed, the camera is granted, the component
\* is mounted and shows the load error
LoadFailedCameraGranted ==
    /\ mounted /\ loadPc = "failed" /\ cameraPc = "granted"
    /\ ~isLoading /\ ~modelLoaded /\ error # ""

\* C16: a camera failure leaves isLoading, the model-loaded flag and the
\* session handle unchanged, and the camera error stays surfaced however
\* the concurrent model load resolves afterwards.
CameraErrorIndependent ==
    [][/\ (cameraPc = "pending" /\ cameraPc' = "denied")
            => /\ isLoading' = isLoading
               /\ modelLoaded' = modelLoaded
               /\ sessionRef' = sessionRef
       /\ (mounted /\ error = "Failed to access camera"
              /\ loadPc = "pending" /\ loadPc' # "pending")
            => error' = "Failed to access camera"
      ]_vars

\* C17: the inference session is created once, by the load at startup:
\* InferenceSession.create is entered only from the mount effect, the
\* session handle is written only when that load resolves, and every
\* dispatched cycle runs on that handle and leaves it alone.
SessionCreatedOnce ==
    [][/\ (loadPc' = "pending" /\ loadPc # "pending") => loadPc = "idle"
       /\ sessionRef' # sessionRef
            => (sessionRef = "null" /\ loadPc = "pending" /\ loadPc' = "done")
       /\ \A c \in inFlight' \ inFlight :
            /\ c.session = "session"
            /\ sessionRef' = c.session
            /\ loadPc' = "done" /\ loadPc = "done"
      ]_vars

\* C17 witness: in the second start/stop round a cycle is in flight on the
\* session of the first round
SecondRoundSameSession ==
    /\ isDetecting /\ fpsIntervalRef = 2
    /\ lastCycle.id >= 1
    /\ \E c \in inFlight : c.id > lastCycle.id /\ c.session = sessionRef

\* C19: published results are never stale: the published detection list is
\* never overwritten by the result of a cycle dispatched earlier than the
\* cycle whose result is published.
NoStaleOverwrite ==
    [][(mounted /\ lastCycle.outcome = "decoded"
           /\ lastCycle'.outcome = "decoded" /\ lastCycle' # lastCycle)
          => lastCycle'.id > lastCycle.id]_vars

\* C20: at most one repeating timer is active, its handle is the one in
\* fpsIntervalRef, and none is active once detection is stopped.
OneTimerHeldInRef ==
    /\ Cardinality(intervals) <= 1
    /\ \A t \in intervals : t.id = fpsIntervalRef
    /\ Stopped => intervals = {}

\* C20 witness: detection runs for the second time; the only active timer
\* is the second one
SecondTimerAlone ==
    /\ isDetecting /\ mounted
    /\ fpsIntervalRef = 2
    /\ \E t \in intervals : t.id = 2 /\ t.elapsed >= 1

(***************************************************************************)
(* The preprocessor alone: preprocessImage applied to one video frame      *)
(***************************************************************************)
InitPre ==
    /\ isDetecting = FALSE
    /\ isLoading = FALSE
    /\ detections = <<>>
    /\ fps = 0
    /\ modelLoaded = FALSE
    /\ confidenceThreshold = InitialThreshold
    /\ error = ""
    /\ sessionRef = "null"
    /\ animationRef = 0
    /\ fpsIntervalRef = 0
    /\ frameCountRef = 0
    /\ videoRef = "video"
    /\ srcObject = "null"
    /\ mounted = TRUE
    /\ loadPc = "idle"
    /\ cameraPc = "idle"
    /\ liveStream = FALSE
    /\ intervals = {}
    /\ rafs = {}
    /\ inFlight = {}
    /\ nextHandle = 1
    /\ nextCycle = 1
    /\ lastCycle = NoCycle
    /\ output = [dims |-> <<>>, data |-> <<>>]
    /\ result = <<>>
    /\ decPc = "off"
    /\ prevResult = <<>>
    /\ prevThreshold = InitialThreshold
    /\ frame \in Frames
    /\ input = <<>>
    /\ prePc = "ready"

Preprocess ==
    /\ prePc = "ready"
    /\ input' = preprocessImage(frame.pixels, PreSide)
    /\ prePc' = "done"
    /\ UNCHANGED <<stateVars, refVars, envVars, output, result, decPc,
                   prevResult, prevThreshold, frame>>

NextPre == Preprocess

SpecPre == InitPre /\ [][NextPre]_vars

\* C18: the preprocessor output has length 3*size*size for every source
\* resolution and is channel-planar: output[c*size^2 + i] is the value at
\* interleaved position 4*i + c of the RGBA buffer divided by 255, and no
\* alpha value (position 4*i + 3) appears in it.
PlanarNoAlpha ==
    prePc = "done" =>
        LET n == PreSide * PreSide
        IN  /\ Len(input) = 3 * n
            /\ \A i \in 0..(n - 1) :
                  /\ \A c \in 0..2 :
                        input[c * n + i + 1] =
                            [num |-> frame.pixels[4 * i + c + 1], den |-> 255]
                  /\ \A k \in 1..Len(input) :
                        input[k].num # frame.pixels[4 * i + 3 + 1]

\* C18 witness: a preprocessed non-square frame whose pixels differ
MixedFramePreprocessed ==
    /\ prePc = "done"
    /\ frame.width # frame.height
    /\ frame.pixels[1] # frame.pixels[5]
    /\ input[1] # input[2]

====
